---- MODULE Spec2Model ----
(***************************************************************************)
(* Ingestion and normalisation pipeline of app_streamlit.py: load_data     *)
(* (read_csv with ';', layout detection, Excel-serial conversion, sort,    *)
(* cumulative sum) and the date-range filter of main.                      *)
(*                                                                         *)
(* A CSV field is a record [k, v]:                                         *)
(*   k = "num"   the text of the integer v                                 *)
(*   k = "date"  the text YYYY-MM-DD, v its digits read as YYYYMMDD        *)
(*   k = "text"  any other text (v = 1: the literal text fecha)            *)
(*   k = "empty" an empty field, which pandas reads as NaN                 *)
(* A table value is a float [k = "num" | "nan", v], a str [k = "str", v]   *)
(* with v the texts it is made of, or a timestamp [k = "ts" | "nat", v,    *)
(* ns]: v the days since 1970-01-01, ns the nanoseconds into that day.     *)
(***************************************************************************)
EXTENDS Integers, Sequences, FiniteSets, TLC

VARIABLES uploaded_file, df, err, date_range, df_filtered

vars == <<uploaded_file, df, err, date_range, df_filtered>>

\* Largest number of data rows of an uploaded file.
MaxRows == 3

\* Largest number of data rows of an uploaded file that is refused on its
\* header, before any row is looked at: a file written with ',', or one
\* without a required column.
MaxRefusedRows == 1

---------------------------------------------------------------------------
(* Values *)

Num(n) == [k |-> "num", v |-> n]
Empty == [k |-> "empty", v |-> 0]
Text == [k |-> "text", v |-> 0]
FechaText == [k |-> "text", v |-> 1]
DateText(n) == [k |-> "date", v |-> n]

NaN == [k |-> "nan", v |-> 0]
NaT == [k |-> "nat", v |-> 0, ns |-> 0]
Ts(n) == [k |-> "ts", v |-> n, ns |-> 0]
Str(pieces) == [k |-> "str", v |-> pieces]

\* The pandas builds differ on the cumulative sum of a column of text. Read as
\* object dtype, the column is joined or cumsum raises on it, and a missing
\* value always raises; read as str dtype, the column is joined and a missing
\* value is skipped.
Builds == {"concatenates", "raises", "str_dtype"}

\* st.error has reported nothing.
NoError == ""

\* uploaded_file is None / load_data returned None.
NoFile == [sep |-> "", header |-> <<>>, rows |-> <<>>]
None == [isNone |-> TRUE, rows |-> <<>>]
Table(rows) == [isNone |-> FALSE, rows |-> rows]

\* Series.notna()
notna(x) == x.k \notin {"nan", "nat", "empty"}

RECURSIVE Mask(_, _)
\* Boolean indexing df[mask]: the rows at the positions where the mask is True
\* (keep is the set of those positions), in order, labels kept.
Mask(rows, keep) ==
    IF rows = <<>> THEN <<>>
    ELSE LET n == Len(rows)
             front == Mask(SubSeq(rows, 1, n - 1), keep)
         IN IF n \in keep THEN Append(front, rows[n]) ELSE front

---------------------------------------------------------------------------
(* Calendar *)

IsLeap(y) == (y % 4 = 0 /\ y % 100 # 0) \/ y % 400 = 0

DaysInMonth(y, m) ==
    IF m = 2 THEN (IF IsLeap(y) THEN 29 ELSE 28)
    ELSE IF m \in {4, 6, 9, 11} THEN 30 ELSE 31

\* Days from 1970-01-01 to the proleptic Gregorian date y-m-d.
DaysFromCivil(y, m, d) ==
    LET yy == IF m <= 2 THEN y - 1 ELSE y
        era == yy \div 400
        yoe == yy - era * 400
        mp == (m + 9) % 12
        doy == (153 * mp + 2) \div 5 + d - 1
        doe == yoe * 365 + yoe \div 4 - yoe \div 100 + doy
    IN era * 146097 + doe - 719468

\* The date <<y, m, d>> that lies z days after 1970-01-01.
CivilFromDays(z) ==
    LET zz == z + 719468
        era == zz \div 146097
        doe == zz - era * 146097
        yoe == (doe - doe \div 1460 + doe \div 36524 - doe \div 146096) \div 365
        doy == doe - (365 * yoe + yoe \div 4 - yoe \div 100)
        mp == (5 * doy + 2) \div 153
        d == doy - (153 * mp + 2) \div 5 + 1
        m == IF mp < 10 THEN mp + 3 ELSE mp - 9
        y == yoe + era * 400
    IN <<IF m <= 2 THEN y + 1 ELSE y, m, d>>

---------------------------------------------------------------------------
(* pandas primitives *)

RECURSIVE Join(_, _)
\* sep.join(names)
Join(names, sep) ==
    IF names = <<>> THEN ""
    ELSE IF Len(names) = 1 THEN names[1]
    ELSE Join(SubSeq(names, 1, Len(names) - 1), sep) \o sep \o names[Len(names)]

\* pd.read_csv(uploaded_file, sep=';'): the fields of a line are split at ';'
\* only, so a line written with ',' is one field holding the whole line.
\* Rows get the labels 0, 1, ... of a RangeIndex.
read_csv(file) ==
    IF file.sep = ";" \/ Len(file.header) <= 1
    THEN [columns |-> file.header,
          rows |-> [i \in 1..Len(file.rows) |->
                        [Index |-> i - 1, cells |-> file.rows[i]]]]
    ELSE [columns |-> <<Join(file.header, file.sep)>>,
          rows |-> [i \in 1..Len(file.rows) |->
                        [Index |-> i - 1, cells |-> <<Text>>]]]

\* df.dropna(how='all')
dropna_all(frame) ==
    LET HasValue(r) == \E c \in 1..Len(r.cells) : notna(r.cells[c])
    IN [frame EXCEPT !.rows =
            Mask(frame.rows, {i \in 1..Len(frame.rows) : HasValue(frame.rows[i])})]

\* col in df.columns
HasColumn(frame, name) == \E c \in 1..Len(frame.columns) : frame.columns[c] = name

\* The position of the column called name.
ColumnOf(frame, name) ==
    CHOOSE c \in 1..Len(frame.columns) : frame.columns[c] = name

\* pd.to_numeric(cell, errors='coerce')
to_numeric(cell) == IF cell.k = "num" THEN Num(cell.v) ELSE NaN

\* read_csv types a column by all its fields: a column whose fields are numbers
\* or empty is a column of numbers.
IsNumberColumn(frame, c) ==
    \A i \in 1..Len(frame.rows) : frame.rows[i].cells[c].k \in {"num", "empty"}

\* The value read_csv gives the field of line i in column c: NaN for an empty
\* field, the number in a column of numbers, and in any other column the text
\* of the field as a str (the text of a number too).
csv_value(frame, c, i) ==
    LET cell == frame.rows[i].cells[c]
    IN IF cell.k = "empty" THEN NaN
       ELSE IF IsNumberColumn(frame, c) THEN Num(cell.v)
       ELSE Str(<<cell>>)

\* Whether pd.to_datetime can parse a field of a Date column of str: an empty
\* field is read as missing, the text YYYY-MM-DD must name a day of the
\* calendar; other text, and digits such as 42338 among the texts, are no date.
Parsable(cell) ==
    \/ cell.k = "empty"
    \/ /\ cell.k = "date"
       /\ LET y == cell.v \div 10000
              m == (cell.v \div 100) % 100
              d == cell.v % 100
          IN m \in 1..12 /\ d \in 1..DaysInMonth(y, m)

\* pd.to_datetime(cell) of a parsable field of a Date column of str.
to_datetime(cell) ==
    IF cell.k = "empty" THEN NaT
    ELSE Ts(DaysFromCivil(cell.v \div 10000, (cell.v \div 100) % 100, cell.v % 100))

\* pd.to_datetime(cell) in a Date column of numbers: the number counts the
\* nanoseconds from 1970-01-01 00:00 (a number of the model, 0 <= n < 2^31, stays
\* within that day); nothing raises.
to_datetime_ns(cell) ==
    IF cell.k = "empty" THEN NaT
    ELSE [k |-> "ts", v |-> 0, ns |-> cell.v]

\* pd.to_datetime(x, unit='D', origin='1900-01-01'): x days after the origin.
to_datetime_origin(x) == Ts(DaysFromCivil(1900, 1, 1) + x)

\* The Excel-serial conversion of process_user_format.
ExcelToDate(serial) == to_datetime_origin(serial - 25569)

RECURSIVE InsertSorted(_, _)
\* row put after every row of the sorted rows whose Date is not later than its own.
InsertSorted(rows, row) ==
    IF rows = <<>> THEN <<row>>
    ELSE LET last == rows[Len(rows)]
             NotLater(a, b) == a.v < b.v \/ (a.v = b.v /\ a.ns <= b.ns)
         IN IF NotLater(last.Date, row.Date) THEN Append(rows, row)
            ELSE Append(InsertSorted(SubSeq(rows, 1, Len(rows) - 1), row), last)

RECURSIVE SortDated(_)
SortDated(rows) ==
    IF rows = <<>> THEN <<>>
    ELSE InsertSorted(SortDated(SubSeq(rows, 1, Len(rows) - 1)), rows[Len(rows)])

\* df.sort_values('Date'): ascending, rows without a date last; equal dates keep
\* their order (numpy sorts these short columns by insertion). Labels are kept.
sort_values(rows) ==
    LET Dated(r) == notna(r.Date)
        Undated(r) == ~notna(r.Date)
    IN SortDated(Mask(rows, {i \in 1..Len(rows) : Dated(rows[i])}))
           \o Mask(rows, {i \in 1..Len(rows) : Undated(rows[i])})

RECURSIVE accumulate(_)
\* np.cumsum: the running sums of a column of numbers.
accumulate(vals) ==
    IF vals = <<>> THEN <<>>
    ELSE LET n == Len(vals)
             front == accumulate(SubSeq(vals, 1, n - 1))
         IN Append(front, IF n = 1 THEN vals[1] ELSE front[n - 1] + vals[n])

RECURSIVE concatenate(_)
\* The cumulative sum over a column of str: '+' joins the texts, a missing
\* value counting as the empty text.
concatenate(xs) ==
    IF xs = <<>> THEN <<>>
    ELSE LET n == Len(xs)
             front == concatenate(SubSeq(xs, 1, n - 1))
             text == IF notna(xs[n]) THEN xs[n].v ELSE <<>>
         IN Append(front, IF n = 1 THEN Str(text) ELSE Str(front[n - 1].v \o text))

IsStrColumn(xs) == \E i \in 1..Len(xs) : xs[i].k = "str"

\* Whether Series.cumsum() raises: never on numbers and never on a column of
\* str dtype; on a column of text of object dtype when a value is missing (the
\* 0.0 put in its place cannot be added to a str) and, by the pandas build, on
\* any such column.
cumsum_raises(xs, build) ==
    /\ IsStrColumn(xs)
    /\ build # "str_dtype"
    /\ (build = "raises" \/ \E i \in 1..Len(xs) : ~notna(xs[i]))

\* cumsum as it would be with skipna=False: once a value is missing, every
\* later result is missing.
cumsum_noskip(xs) ==
    IF IsStrColumn(xs)
    THEN LET joined == concatenate(xs)
         IN [i \in 1..Len(xs) |->
                IF \A j \in 1..i : notna(xs[j]) THEN joined[i] ELSE NaN]
    ELSE LET vals == [i \in 1..Len(xs) |-> IF notna(xs[i]) THEN xs[i].v ELSE 0]
             sums == accumulate(vals)
         IN [i \in 1..Len(xs) |->
                IF \A j \in 1..i : notna(xs[j]) THEN Num(sums[i]) ELSE NaN]

\* Series.cumsum() (skipna=True) where it does not raise: the missing values
\* are summed as 0 and the result is set missing again where the value was
\* missing; a column of str is joined in the same way.
cumsum(xs) ==
    IF IsStrColumn(xs)
    THEN LET joined == concatenate(xs)
         IN [i \in 1..Len(xs) |-> IF notna(xs[i]) THEN joined[i] ELSE NaN]
    ELSE LET vals == [i \in 1..Len(xs) |-> IF notna(xs[i]) THEN xs[i].v ELSE 0]
             sums == accumulate(vals)
         IN [i \in 1..Len(xs) |-> IF notna(xs[i]) THEN Num(sums[i]) ELSE NaN]

---------------------------------------------------------------------------
(* load_data *)

\* What a function that may fail hands back: the table (None after a failure)
\* and the message given to st.error.
Failed(msg) == [table |-> None, error |-> msg]
Returned(rows) == [table |-> Table(rows), error |-> NoError]

\* precipitation_col as it would be if the scan fell back on the last column
\* when no column is above the threshold.
precipitation_col_fallback(columns, numeric_rows) ==
    LET Above(c) == \E i \in 1..Len(numeric_rows) :
                        /\ notna(to_numeric(numeric_rows[i].cells[c]))
                        /\ to_numeric(numeric_rows[i].cells[c]).v > 10
        hits == {c \in 1..Len(columns) : Above(c)}
    IN IF hits = {} THEN Len(columns) ELSE CHOOSE c \in hits : \A o \in hits : c <= o

\* The column process_user_format takes as precipitation: the first column,
\* scanning all columns of numeric_rows from the left, that has a numeric value
\* and whose largest numeric value is above 10; 0 when there is none.
precipitation_col(columns, numeric_rows) ==
    LET Above(c) == \E i \in 1..Len(numeric_rows) :
                        /\ notna(to_numeric(numeric_rows[i].cells[c]))
                        /\ to_numeric(numeric_rows[i].cells[c]).v > 10
        hits == {c \in 1..Len(columns) : Above(c)}
    IN IF hits = {} THEN 0 ELSE CHOOSE c \in hits : \A o \in hits : c <= o

\* clean_df.dropna(): the rows with no missing value.
dropna(rows) ==
    LET Complete(r) == notna(r.Date) /\ notna(r.Displacement) /\ notna(r.Precipitation)
    IN Mask(rows, {i \in 1..Len(rows) : Complete(rows[i])})

process_user_format(frame) ==
    LET NotMeta(r) == notna(r.cells[1]) /\ r.cells[1] # FechaText
        NumericFirst(r) == notna(to_numeric(r.cells[1]))
        data_rows == Mask(frame.rows, {i \in 1..Len(frame.rows) : NotMeta(frame.rows[i])})
        numeric_rows == Mask(data_rows, {i \in 1..Len(data_rows) : NumericFirst(data_rows[i])})
        pcol == precipitation_col(frame.columns, numeric_rows)
        displacement_col == 2
        clean_df == [i \in 1..Len(numeric_rows) |->
                        [Index |-> numeric_rows[i].Index,
                         Date |-> ExcelToDate(to_numeric(numeric_rows[i].cells[1]).v),
                         Displacement |-> to_numeric(numeric_rows[i].cells[displacement_col]),
                         Precipitation |-> to_numeric(numeric_rows[i].cells[pcol])]]
    IN IF numeric_rows = <<>>
       THEN Failed("No se encontraron datos numericos validos")
       ELSE IF pcol = 0
       THEN Failed("No se pudo identificar la columna de precipitacion")
       ELSE IF Len(frame.columns) < 2
       THEN Failed("Error procesando formato del usuario")
       ELSE Returned(dropna(clean_df))

process_standard_format(frame) ==
    LET required_columns == {"Date", "Displacement", "Precipitation"}
        dcol == ColumnOf(frame, "Date")
        xcol == ColumnOf(frame, "Displacement")
        pcol == ColumnOf(frame, "Precipitation")
    IN IF ~(\A col \in required_columns : HasColumn(frame, col))
       THEN Failed("El archivo debe contener las columnas")
       ELSE IF /\ ~IsNumberColumn(frame, dcol)
               /\ \E i \in 1..Len(frame.rows) : ~Parsable(frame.rows[i].cells[dcol])
       THEN Failed("Error procesando formato estandar")
       ELSE Returned([i \in 1..Len(frame.rows) |->
                        [Index |-> frame.rows[i].Index,
                         Date |-> IF IsNumberColumn(frame, dcol)
                                  THEN to_datetime_ns(frame.rows[i].cells[dcol])
                                  ELSE to_datetime(frame.rows[i].cells[dcol]),
                         Displacement |-> csv_value(frame, xcol, i),
                         Precipitation |-> csv_value(frame, pcol, i)]])

\* The rows with the column Cumulative_Displacement added.
WithCumulative(rows) ==
    LET cum == cumsum([i \in 1..Len(rows) |-> rows[i].Displacement])
    IN [i \in 1..Len(rows) |->
           [Index |-> rows[i].Index,
            Date |-> rows[i].Date,
            Displacement |-> rows[i].Displacement,
            Precipitation |-> rows[i].Precipitation,
            Cumulative_Displacement |-> cum[i]]]

\* build: what this pandas does on the cumulative sum of a column of str. An
\* exception of sort_values or cumsum is caught at the end of load_data.
load_data(file, build) ==
    LET frame == dropna_all(read_csv(file))
        res == IF HasColumn(frame, "fecha")
               THEN process_user_format(frame)
               ELSE process_standard_format(frame)
        sorted == sort_values(res.table.rows)
    IN IF res.table.isNone THEN res
       ELSE IF cumsum_raises([i \in 1..Len(sorted) |-> sorted[i].Displacement], build)
       THEN Failed("Error al cargar el archivo")
       ELSE Returned(WithCumulative(sorted))

---------------------------------------------------------------------------
(* main *)

\* The dates of the rows that have one.
DatesOf(table) ==
    {table.rows[i].Date.v : i \in {j \in 1..Len(table.rows) : notna(table.rows[j].Date)}}

min_date(table) == CHOOSE d \in DatesOf(table) : \A o \in DatesOf(table) : d <= o
max_date(table) == CHOOSE d \in DatesOf(table) : \A o \in DatesOf(table) : o <= d

\* df[(df['Date'].dt.date >= start_date) & (df['Date'].dt.date <= end_date)]:
\* a comparison with a missing date is False.
filter_dates(table, start_date, end_date) ==
    LET InRange(r) == /\ notna(r.Date)
                      /\ r.Date.v >= start_date
                      /\ r.Date.v <= end_date
    IN Table(Mask(table.rows, {i \in 1..Len(table.rows) : InRange(table.rows[i])}))

\* The view main hands to create_main_plot and calculate_statistics.
apply_filter(table, range) ==
    IF Len(range) = 2 THEN filter_dates(table, range[1], range[2]) ELSE table

\* The days offered to the model's user among those date_input accepts, the
\* days from min_date to max_date: the days of the rows and the day after each.
PickableDays(table) ==
    {d \in DatesOf(table) \cup {o + 1 : o \in DatesOf(table)} :
        min_date(table) <= d /\ d <= max_date(table)}

\* calculate_statistics(df)['Desplazamiento Total'] of a view with rows (on a
\* view without rows iloc[-1] raises IndexError).
DesplazamientoTotal(table) == table.rows[Len(table.rows)].Cumulative_Displacement

---------------------------------------------------------------------------
(* Uploaded files *)

LegacyHeader == <<"fecha", "v1", "v2">>
StandardHeader == <<"Date", "Displacement", "Precipitation">>
OtherHeader == <<"Date", "Displacement", "Rain">>

\* A line of a legacy export: serial date; displacement; rainfall.
LegacyRows ==
    {<<a, b, c>> : a \in {Num(9), Num(42338), Text, Empty},
                   b \in {Num(5), Num(12)},
                   c \in {Num(19), Empty}}

\* A line of a file in the documented layout: Date; Displacement; Precipitation.
StandardRows ==
    {<<a, b, c>> : a \in {DateText(20230101), DateText(20230301), DateText(20230230),
                          Num(42338), Empty},
                   b \in {Num(1), Empty, Text},
                   c \in {Num(45)}}

Separators == {";", ","}

\* The files that can be uploaded: either separator, up to MaxRows lines of data.
LegacyFile(sep, rows) == [sep |-> sep, header |-> LegacyHeader, rows |-> rows]
StandardFile(sep, header, rows) == [sep |-> sep, header |-> header, rows |-> rows]

\* The files the model's user drops on a file that is already in the uploader
\* (none has a column of str).
ReplacementFiles ==
    {LegacyFile(";", <<<<Num(42338), Num(5), Num(19)>>>>),
     StandardFile(";", StandardHeader, <<<<DateText(20230101), Num(1), Num(45)>>,
                                         <<DateText(20230301), Num(1), Num(45)>>>>),
     StandardFile(",", StandardHeader, <<<<DateText(20230101), Num(1), Num(45)>>>>)}

\* What load_data returns for each of them, on either pandas build.
ReplacementLoads ==
    {[file |-> file, res |-> load_data(file, build)] :
        file \in ReplacementFiles, build \in Builds}

---------------------------------------------------------------------------
(* The session *)

Init ==
    /\ uploaded_file = NoFile
    /\ df = None
    /\ err = NoError
    /\ date_range = <<>>
    /\ df_filtered = None

\* A file is put in the uploader, empty or not: main runs load_data and, when
\* a table comes back, shows it under the range date_input returns. That is
\* the default (min_date, max_date), unless the run before showed a table with
\* the same min_date and max_date: date_input is then called as in that run
\* and returns what the user left in it. With no dated row df['Date'].min() is
\* NaT and main stops at its strftime.
Show(file, res) ==
    /\ LET shown == ~res.table.isNone /\ DatesOf(res.table) # {}
           same_widget == /\ shown
                          /\ ~df.isNone
                          /\ DatesOf(df) # {}
                          /\ min_date(df) = min_date(res.table)
                          /\ max_date(df) = max_date(res.table)
           range == IF same_widget THEN date_range
                    ELSE IF shown THEN <<min_date(res.table), max_date(res.table)>>
                    ELSE <<>>
       IN /\ uploaded_file' = file
          /\ df' = res.table
          /\ err' = res.error
          /\ date_range' = range
          /\ df_filtered' = IF shown THEN apply_filter(res.table, range) ELSE None

Upload(file, build) == Show(file, load_data(file, build))

\* Upload when the uploader is empty; the lines of a legacy export are numbers
\* to load_data, whatever the pandas build.
UploadLegacy ==
    /\ uploaded_file = NoFile
    /\ \E n \in 0..MaxRows : \E rows \in [1..n -> LegacyRows] :
           Upload(LegacyFile(";", rows), "concatenates")

UploadStandard ==
    /\ uploaded_file = NoFile
    /\ \E n \in 0..MaxRows, build \in Builds : \E rows \in [1..n -> StandardRows] :
           Upload(StandardFile(";", StandardHeader, rows), build)

UploadRefused ==
    /\ uploaded_file = NoFile
    /\ \E n \in 0..MaxRefusedRows, build \in Builds :
           \/ \E rows \in [1..n -> LegacyRows] : Upload(LegacyFile(",", rows), build)
           \/ \E rows \in [1..n -> StandardRows] :
                  Upload(StandardFile(",", StandardHeader, rows), build)
           \/ \E sep \in Separators : \E rows \in [1..n -> StandardRows] :
                  Upload(StandardFile(sep, OtherHeader, rows), build)

\* A file is dropped on the file in the uploader: the same run of main.
Replace ==
    /\ uploaded_file # NoFile
    /\ \E load \in ReplacementLoads : Show(load.file, load.res)

\* Both ends of the date range are picked in the sidebar: date_input takes any
\* two days from min_date to max_date, the first not after the second.
SelectRange(start_date, end_date) ==
    /\ ~df.isNone
    /\ DatesOf(df) # {}
    /\ min_date(df) <= start_date
    /\ start_date <= end_date
    /\ end_date <= max_date(df)
    /\ date_range' = <<start_date, end_date>>
    /\ df_filtered' = apply_filter(df, date_range')
    /\ UNCHANGED <<uploaded_file, df, err>>

\* Only the first end of the range is picked so far: len(date_range) is 1.
SelectStart(start_date) ==
    /\ ~df.isNone
    /\ DatesOf(df) # {}
    /\ min_date(df) <= start_date
    /\ start_date <= max_date(df)
    /\ date_range' = <<start_date>>
    /\ df_filtered' = apply_filter(df, date_range')
    /\ UNCHANGED <<uploaded_file, df, err>>

\* The file is taken out of the uploader.
Remove ==
    /\ uploaded_file # NoFile
    /\ uploaded_file' = NoFile
    /\ df' = None
    /\ err' = NoError
    /\ date_range' = <<>>
    /\ df_filtered' = None

Next ==
    \/ UploadLegacy
    \/ UploadStandard
    \/ UploadRefused
    \/ Replace
    \/ /\ ~df.isNone
       /\ DatesOf(df) # {}
       /\ \E s \in PickableDays(df), e \in PickableDays(df) : SelectRange(s, e)
    \/ /\ ~df.isNone
       /\ DatesOf(df) # {}
       /\ \E s \in PickableDays(df) : SelectStart(s)
    \/ Remove

Spec == Init /\ [][Next]_vars

---------------------------------------------------------------------------
(* Properties *)

Uploaded == uploaded_file # NoFile
Frame == read_csv(uploaded_file)
IsLegacy == Uploaded /\ HasColumn(Frame, "fecha")
IsStandard ==
    Uploaded /\ ~HasColumn(Frame, "fecha")
             /\ \A c \in {"Date", "Displacement", "Precipitation"} : HasColumn(Frame, c)

\* The line of the uploaded file a table row was made from.
SourceRow(r) == uploaded_file.rows[r.Index + 1]

\* The lines of the uploaded file whose first field is a number.
NumericLines ==
    {i \in 1..Len(Frame.rows) : Frame.rows[i].cells[1].k = "num"}

\* Column c has a value above 10 on a line whose first field is a number.
Exceeds(c) ==
    \E i \in NumericLines :
        Frame.rows[i].cells[c].k = "num" /\ Frame.rows[i].cells[c].v > 10

\* a == b on two values of a column: a missing operand compares unequal.
Eq(a, b) == notna(a) /\ notna(b) /\ a = b

\* a <= b on two timestamps: a missing operand compares unordered.
Le(a, b) == notna(a) /\ notna(b) /\ (a.v < b.v \/ (a.v = b.v /\ a.ns <= b.ns))

\* a + b on two values of a column: the sum of two floats (missing when an
\* operand is missing), the two texts joined for two str.
Plus(a, b) ==
    IF a.k = "str" /\ b.k = "str" THEN Str(a.v \o b.v)
    ELSE IF a.k = "num" /\ b.k = "num" THEN Num(a.v + b.v)
    ELSE NaN

\* C1: in a legacy export the precipitation of every output row is the value of
\* the first measurement column (the columns after the serial-date column,
\* scanned left to right) that has a value above 10, never the serial date.
C1_PrecipitationIsMeasurementColumn ==
    (IsLegacy /\ ~df.isNone) =>
        LET measure == {c \in 2..Len(Frame.columns) : Exceeds(c)}
            col == CHOOSE c \in measure : \A o \in measure : c <= o
        IN /\ measure # {}
           /\ \A i \in 1..Len(df.rows) :
                  /\ df.rows[i].Precipitation = to_numeric(SourceRow(df.rows[i])[col])
                  /\ df.rows[i].Precipitation # to_numeric(SourceRow(df.rows[i])[1])

\* C2: every Excel serial s becomes the date (s - 25569) days after 1970-01-01,
\* and the serial 42338 becomes 2015-12-01.
C2_SerialToDate ==
    (IsLegacy /\ ~df.isNone) =>
        \A i \in 1..Len(df.rows) :
            LET serial == SourceRow(df.rows[i])[1].v
            IN /\ df.rows[i].Date = Ts(serial - 25569)
               /\ serial = 42338 => CivilFromDays(df.rows[i].Date.v) = <<2015, 12, 1>>

\* C3 as stated: in output row order the first cumulative displacement equals
\* the first displacement and every later one equals the previous cumulative
\* displacement plus the row's displacement.
C3_CumulativeRecurrence ==
    ~df.isNone =>
        \A i \in 1..Len(df.rows) :
            IF i = 1
            THEN Eq(df.rows[1].Cumulative_Displacement, df.rows[1].Displacement)
            ELSE Eq(df.rows[i].Cumulative_Displacement,
                    Plus(df.rows[i - 1].Cumulative_Displacement, df.rows[i].Displacement))

\* C3 amended: in output row order the cumulative displacement is missing where
\* the displacement is missing; otherwise it equals the displacement when no
\* earlier row has a displacement, and else the cumulative displacement of the
\* nearest earlier row that has one plus the row's displacement ('+' joins the
\* texts of a column of str).
C3_CumulativeSkipsMissing ==
    ~df.isNone =>
        \A i \in 1..Len(df.rows) :
            LET before == {j \in 1..(i - 1) : notna(df.rows[j].Displacement)}
                nearest == CHOOSE j \in before : \A o \in before : o <= j
            IN IF ~notna(df.rows[i].Displacement)
               THEN df.rows[i].Cumulative_Displacement = NaN
               ELSE IF before = {}
               THEN Eq(df.rows[i].Cumulative_Displacement, df.rows[i].Displacement)
               ELSE Eq(df.rows[i].Cumulative_Displacement,
                       Plus(df.rows[nearest].Cumulative_Displacement,
                            df.rows[i].Displacement))

\* A returned table with a missing displacement between two numeric ones.
C3_Witness ==
    /\ ~df.isNone
    /\ \E i, j, k \in 1..Len(df.rows) :
          /\ i < j /\ j < k
          /\ notna(df.rows[i].Displacement)
          /\ ~notna(df.rows[j].Displacement)
          /\ notna(df.rows[k].Displacement)
          /\ notna(df.rows[k].Cumulative_Displacement)

\* C4: the cumulative column of the view handed to the chart and the statistics
\* is the cumulative sum over the view's own rows, so that Desplazamiento Total
\* is the sum of the displacements of the filtered rows.
C4_ViewCumulativeRecomputed ==
    ~df_filtered.isNone =>
        LET rows == df_filtered.rows
            own == cumsum([i \in 1..Len(rows) |-> rows[i].Displacement])
        IN /\ \A i \in 1..Len(rows) : rows[i].Cumulative_Displacement = own[i]
           /\ rows # <<>> => DesplazamientoTotal(df_filtered) = own[Len(rows)]

\* C5: in the returned table and in every filtered view, adjacent rows satisfy
\* Date[i] <= Date[i+1].
C5_DatesAscending ==
    /\ ~df.isNone =>
          \A i \in 1..(Len(df.rows) - 1) : Le(df.rows[i].Date, df.rows[i + 1].Date)
    /\ ~df_filtered.isNone =>
          \A i \in 1..(Len(df_filtered.rows) - 1) :
              Le(df_filtered.rows[i].Date, df_filtered.rows[i + 1].Date)

\* C6: with the full range (min date, max date) selected, or with no complete
\* range, the view is the loaded table, row for row and column for column; and
\* the view under a range is the same however often the range is applied.
C6_FullRangeIsIdentity ==
    (~df.isNone /\ DatesOf(df) # {}) =>
        /\ df_filtered = apply_filter(apply_filter(df, date_range), date_range)
        /\ (Len(date_range) # 2 \/ date_range = <<min_date(df), max_date(df)>>)
               => df_filtered = df

\* Part of C6 that the code keeps: while the file stays in the uploader, no
\* selection of a range changes the loaded table.
FilterKeepsTable == [][uploaded_file' = uploaded_file => df' = df]_vars

\* No layout can be established for the uploaded file: no fecha column and a
\* required column missing; a fecha column and no line whose first field is a
\* number; or no column with a value above the threshold.
NoLayout ==
    \/ /\ ~HasColumn(Frame, "fecha")
       /\ \E c \in {"Date", "Displacement", "Precipitation"} : ~HasColumn(Frame, c)
    \/ /\ HasColumn(Frame, "fecha")
       /\ NumericLines = {}
    \/ /\ HasColumn(Frame, "fecha")
       /\ \A c \in 1..Len(Frame.columns) : ~Exceeds(c)

\* C7: when no layout can be established load_data reports an error and returns
\* None, and no view is made.
C7_NoLayoutNoTable ==
    (Uploaded /\ NoLayout) => (df.isNone /\ err # NoError /\ df_filtered.isNone)

\* A legacy export with lines of data but no value above the threshold was
\* uploaded and refused.
C7_Witness ==
    /\ IsLegacy
    /\ NumericLines # {}
    /\ \A c \in 1..Len(Frame.columns) : ~Exceeds(c)
    /\ df.isNone
    /\ err # NoError

\* C8: for a file with a recognised header, an established layout and a
\* well-formed line, a line whose date cannot be parsed is dropped and the table
\* with the well-formed lines is returned.
C8_BadDateRowDropped ==
    LET BadDate(i) == IF IsLegacy THEN Frame.rows[i].cells[1].k # "num"
                      ELSE Frame.rows[i].cells[1].k = "text"
                           \/ (Frame.rows[i].cells[1].k = "date"
                               /\ ~Parsable(Frame.rows[i].cells[1]))
        WellFormed(i) == IF IsLegacy
                         THEN \A c \in 1..3 : Frame.rows[i].cells[c].k = "num"
                         ELSE /\ Frame.rows[i].cells[1].k = "date"
                              /\ Parsable(Frame.rows[i].cells[1])
                              /\ \A c \in 2..3 : Frame.rows[i].cells[c].k = "num"
        lines == 1..Len(Frame.rows)
    IN ((IsLegacy \/ IsStandard) /\ ~NoLayout /\ \E i \in lines : WellFormed(i)) =>
           /\ ~df.isNone
           /\ \A i \in lines :
                  /\ BadDate(i) => \A r \in 1..Len(df.rows) : df.rows[r].Index # i - 1
                  /\ WellFormed(i) => \E r \in 1..Len(df.rows) : df.rows[r].Index = i - 1

\* C9: a returned table has no two rows with the same timestamp, displacement
\* and precipitation.
C9_RowsUnique ==
    ~df.isNone =>
        \A i, j \in 1..Len(df.rows) :
            i < j => ~(/\ df.rows[i].Date = df.rows[j].Date
                       /\ df.rows[i].Displacement = df.rows[j].Displacement
                       /\ df.rows[i].Precipitation = df.rows[j].Precipitation)

\* C10: a file that loads when written with ';' gives the same table when the
\* same header and lines are written with ','.
C10_CommaSameAsSemicolon ==
    (Uploaded /\ uploaded_file.sep = ",") =>
        \A build \in Builds :
            LET semicolon == load_data([uploaded_file EXCEPT !.sep = ";"], build)
            IN ~semicolon.table.isNone => df = semicolon.table

====
